---- MODULE Spec2Model ----
(***************************************************************************)
(* Model of the Atomsmiths site back end: the part_001 database API        *)
(* (connection cache, DatabaseService, request router), the join handler   *)
(* of src/api/join.js and the POST handler of src/unnamed/part_000.        *)
(*                                                                         *)
(* A process is one HTTP request being served.  A step of a process is the *)
(* synchronous code that runs between two awaits.  A database command      *)
(* takes effect atomically, in a step of its own, and the code that        *)
(* follows its await, up to the next command, runs in that step.           *)
(***************************************************************************)
EXTENDS Integers, Sequences, FiniteSets, TLC

\* ------------------------------------------------------------------ bounds
\* The ObjectIds the store hands out are 1..MaxDocs.
MaxDocs == 3
\* The clock runs over 0..MaxClock.
MaxClock == 1

Procs == {1, 2}

\* ------------------------------------------------------------- JS values
\* A string is a sequence of one-character strings.  undefined and null are
\* two values that are no strings.
Undefined == <<"undefined">>
Null == <<"null">>

IsNullish(v) == v = Undefined \/ v = Null

\* JS truthiness of a string-or-nullish value: "" is falsy.
Truthy(v) == ~IsNullish(v) /\ v # <<>>

\* x || y
OrElse(x, y) == IF Truthy(x) THEN x ELSE y

IsSpace(c) == c = " "

LowerChar(c) == IF c = "A" THEN "a" ELSE IF c = "B" THEN "b" ELSE c

\* String.prototype.toLowerCase
toLowerCase(s) == [i \in 1..Len(s) |-> LowerChar(s[i])]

RECURSIVE trimStart(_)
trimStart(s) == IF s # <<>> /\ IsSpace(Head(s)) THEN trimStart(Tail(s)) ELSE s

RECURSIVE trimEnd(_)
trimEnd(s) ==
    IF s # <<>> /\ IsSpace(s[Len(s)]) THEN trimEnd(SubSeq(s, 1, Len(s) - 1)) ELSE s

\* String.prototype.trim
trim(s) == trimEnd(trimStart(s))

\* x?.trim()
OptTrim(v) == IF IsNullish(v) THEN Undefined ELSE trim(v)

\* One or more characters of the class [^\s@].
NoSpaceAt(s) == s # <<>> /\ \A i \in 1..Len(s) : ~IsSpace(s[i]) /\ s[i] # "@"

\* /^[^\s@]+@[^\s@]+\.[^\s@]+$/.test(s), s a string
emailRegexTest(s) ==
    \E i \in 1..Len(s) : \E j \in 1..Len(s) :
        /\ i < j
        /\ s[i] = "@"
        /\ s[j] = "."
        /\ NoSpaceAt(SubSeq(s, 1, i - 1))
        /\ NoSpaceAt(SubSeq(s, i + 1, j - 1))
        /\ NoSpaceAt(SubSeq(s, j + 1, Len(s)))

\* regex.test(v) turns v into a string first: undefined and null become the
\* words "undefined" and "null", which hold no @.
RegexTest(v) == ~IsNullish(v) /\ emailRegexTest(v)

\* ----------------------------------------------------------- dates, ids
\* The time value of an Invalid Date, and the mark of a date field a document
\* does not have.
NaN == -1
NoDate == -2

DigitChars == <<"0", "1", "2", "3", "4", "5", "6", "7", "8", "9">>

IsDigit(c) == \E n \in 1..Len(DigitChars) : DigitChars[n] = c

DigitVal(c) == (CHOOSE n \in 1..Len(DigitChars) : DigitChars[n] = c) - 1

\* The date string of time t, and new Date(string): a date string is written
\* as the one digit of its time; anything else parses to an Invalid Date.
DateString(t) == <<DigitChars[t + 1]>>

NewDate(v) == IF Len(v) = 1 /\ IsDigit(v[1]) THEN DigitVal(v[1]) ELSE NaN

\* a <= b on two Dates: a comparison with NaN is false.
DateLeq(a, b) == a # NaN /\ b # NaN /\ a <= b

\* The 24 hexadecimal digits of an ObjectId are written as two characters: a
\* hexadecimal letter, in either case, and the digit of the id.  The driver
\* reads the letters of both cases alike.
IsHexString(s) ==
    Len(s) = 2 /\ s[1] \in {"f", "F"} /\ IsDigit(s[2]) /\ DigitVal(s[2]) >= 1

\* new ObjectId(s) for a valid s; the constructor throws for any other s.
ObjectId(s) == DigitVal(s[2])

HexLower(n) == <<"f", DigitChars[n + 1]>>

HexUpper(n) == <<"F", DigitChars[n + 1]>>

BadId == <<"z", "z">>

\* ------------------------------------------------------------- requests
\* The body of a request, parsed: every field a handler reads, undefined
\* when the request does not carry it.
EmptyBody ==
    [name |-> Undefined, email |-> Undefined, department |-> Undefined,
     year |-> Undefined, interests |-> Undefined, title |-> Undefined,
     description |-> Undefined, eventDate |-> Undefined,
     location |-> Undefined, content |-> Undefined, authorId |-> Undefined]

\* req.method, req.query.action, req.query.id, req.query.author, req.body
Request(method, action, id, author, body) ==
    [method |-> method, action |-> action, id |-> id, author |-> author,
     body |-> body]

\* query.action of a request that names none
NoAction == "undefined"

NoRequest == Request("NONE", NoAction, Undefined, Undefined, EmptyBody)

Str(a) == <<a>>

EmLower == <<"a", "@", "b", ".", "c">>
EmUpper == <<"A", "@", "b", ".", "c">>
EmOther == <<"b", "@", "b", ".", "c">>
EmPadded == <<" ">> \o EmLower
EmBad == <<"a", "b">>

MemberBody(name, email, department) ==
    [EmptyBody EXCEPT !.name = name, !.email = email, !.department = department]

\* ------------------------------------------------------------ documents
\* A document of the members collection.  A field the document does not
\* have is undefined (NoDate for a date).
MemberDoc(id, name, email, department, year, interests, joinedAt, createdAt, updatedAt) ==
    [_id |-> id, name |-> name, email |-> email, department |-> department,
     year |-> year, interests |-> interests, joinedAt |-> joinedAt,
     createdAt |-> createdAt, updatedAt |-> updatedAt]

EventDoc(id, title, description, eventDate, location, createdAt, updatedAt) ==
    [_id |-> id, title |-> title, description |-> description,
     eventDate |-> eventDate, location |-> location, createdAt |-> createdAt,
     updatedAt |-> updatedAt]

BlogDoc(id, title, content, authorId, authorName, authorEmail, authorDepartment, createdAt, updatedAt) ==
    [_id |-> id, title |-> title, content |-> content, authorId |-> authorId,
     authorName |-> authorName, authorEmail |-> authorEmail,
     authorDepartment |-> authorDepartment, createdAt |-> createdAt,
     updatedAt |-> updatedAt]

\* The result of a findOne that matches nothing.
NoDoc == [_id |-> 0]

\* collection.findOne(filter), given the documents of the collection that
\* match the filter: one of them, or null.
FindOne(matching) ==
    IF matching # {} THEN CHOOSE d \in matching : TRUE ELSE NoDoc

\* ---------------------------------------------------------------- state
VARIABLES
    members, events, blogs,   \* the three collections
    nextId,                   \* the next ObjectId the store generates
    now,                      \* the clock new Date() reads
    cached,                   \* global._mongo: conn and promise
    clients,                  \* the MongoClients the cache constructed
    rawClient,                \* the module-level client of part_000
    pc, req, calls, loc, resp,\* each request in service
    sent,                     \* the responses each request has been sent
    snap                      \* the collections, and the clients, when the
                              \* last request came in

vars ==
    <<members, events, blogs, nextId, now, cached, clients, rawClient, pc, req,
      calls, loc, resp, sent, snap>>

NoLocals == [wait |-> 0, conn |-> 0, doc |-> NoDoc, date |-> NoDate, at |-> NoDate]

NoResponse == [status |-> 0, msg |-> ""]

Init ==
    /\ members = {}
    /\ events = {}
    /\ blogs = {}
    /\ nextId = 1
    /\ now = 0
    /\ cached = [conn |-> 0, promise |-> 0]
    /\ clients = <<>>
    /\ rawClient = "null"
    /\ pc = [p \in Procs |-> "idle"]
    /\ req = [p \in Procs |-> NoRequest]
    /\ calls = [p \in Procs |-> <<>>]
    /\ loc = [p \in Procs |-> NoLocals]
    /\ resp = [p \in Procs |-> NoResponse]
    /\ sent = [p \in Procs |-> 0]
    /\ snap = <<{}, {}, {}, <<>>>>

\* ------------------------------------------------------ connection cache
\* A request is in service from its arrival to its response.
InService(p) == pc[p] \notin {"idle", "done"}

\* connectToMongoDB / connectToDatabase up to its await: cached.conn when it
\* is set; otherwise the promise to await, a new MongoClient being
\* constructed and its connect() started when cached.promise is not set.
\* [conn, wait, cached, clients]: the handle returned at once (0: none), the
\* promise awaited, and the cache and the clients afterwards.
CacheLookupNoMemo ==
    IF cached.conn # 0
    THEN [conn |-> cached.conn, wait |-> 0, cached |-> cached, clients |-> clients]
    ELSE [conn |-> 0, wait |-> Len(clients) + 1,
          cached |-> [cached EXCEPT !.promise = Len(clients) + 1],
          clients |-> Append(clients, "pending")]

CacheLookup ==
    IF cached.conn # 0
    THEN [conn |-> cached.conn, wait |-> 0, cached |-> cached, clients |-> clients]
    ELSE IF cached.promise = 0
    THEN [conn |-> 0, wait |-> Len(clients) + 1,
          cached |-> [cached EXCEPT !.promise = Len(clients) + 1],
          clients |-> Append(clients, "pending")]
    ELSE [conn |-> 0, wait |-> cached.promise, cached |-> cached,
          clients |-> clients]

\* client.connect() of the k-th client ends: it resolves, to the handle
\* { client, db } of that client (written k), or it rejects.
ConnectSettles(k) ==
    /\ k \in 1..Len(clients)
    /\ clients[k] = "pending"
    /\ \E outcome \in {"connected", "failed"} :
           clients' = [clients EXCEPT ![k] = outcome]
    /\ UNCHANGED <<members, events, blogs, nextId, now, cached, rawClient, pc,
                   req, calls, loc, resp, sent, snap>>

Invoke(op) == [kind |-> "invoke", op |-> op, status |-> 0, msg |-> ""]

Answer(status, msg) == [kind |-> "answer", op |-> "", status |-> status, msg |-> msg]

\* An error thrown inside the try of the handler: its catch answers 500 with
\* the message of the error.
ThrowAnswered(msg) == [kind |-> "answer", op |-> "", status |-> 200, msg |-> msg]

Throw(msg) == [kind |-> "throw", op |-> "", status |-> 0, msg |-> msg]

\* The switch of the part_001 handler, for a method other than OPTIONS: the
\* operation it invokes, the answer it gives itself, or the error it throws.
Route(r) ==
    CASE r.action = "members" ->
           IF r.method = "GET"
           THEN (IF Truthy(r.id) THEN Invoke("getMemberById") ELSE Invoke("getMembers"))
           ELSE IF r.method = "POST" THEN Invoke("registerMember")
           ELSE IF r.method = "PUT"
           THEN (IF ~Truthy(r.id) THEN Throw("Member ID required")
                 ELSE Invoke("updateMember"))
           ELSE IF r.method = "DELETE"
           THEN (IF ~Truthy(r.id) THEN Throw("Member ID required")
                 ELSE Invoke("deleteMember"))
           ELSE Answer(405, "Method not allowed")
      [] r.action = "events" ->
           IF r.method = "GET"
           THEN (IF Truthy(r.id) THEN Invoke("getEventById") ELSE Invoke("getEvents"))
           ELSE IF r.method = "POST" THEN Invoke("addEvent")
           ELSE IF r.method = "PUT"
           THEN (IF ~Truthy(r.id) THEN Throw("Event ID required")
                 ELSE Invoke("updateEvent"))
           ELSE IF r.method = "DELETE"
           THEN (IF ~Truthy(r.id) THEN Throw("Event ID required")
                 ELSE Invoke("deleteEvent"))
           ELSE Answer(405, "Method not allowed")
      [] r.action = "blogs" ->
           IF r.method = "GET"
           THEN (IF Truthy(r.id) THEN Invoke("getBlogById")
                 ELSE IF Truthy(r.author) THEN Invoke("getBlogsByAuthor")
                 ELSE Invoke("getBlogs"))
           ELSE IF r.method = "POST" THEN Invoke("addBlog")
           ELSE IF r.method = "PUT"
           THEN (IF ~Truthy(r.id) THEN Throw("Blog ID required")
                 ELSE Invoke("updateBlog"))
           ELSE IF r.method = "DELETE"
           THEN (IF ~Truthy(r.id) THEN Throw("Blog ID required")
                 ELSE Invoke("deleteBlog"))
           ELSE Answer(405, "Method not allowed")
      [] r.action = "dashboard" ->
           IF r.method = "GET" THEN Invoke("getDashboardStats")
           ELSE Answer(405, "Method not allowed")
      [] r.action = "activity" ->
           IF r.method = "GET" THEN Invoke("getRecentActivity")
           ELSE Answer(405, "Method not allowed")
      [] r.action = "stats" ->
           IF r.method = "GET" THEN Invoke("getMemberStats")
           ELSE Answer(405, "Method not allowed")
      [] OTHER -> Answer(400, "Invalid action")

\* ------------------------------------------------- service: validation
\* registerMember before its first await: the error thrown, or "ok".
RegisterValidate(b) ==
    IF ~Truthy(b.name) \/ ~Truthy(b.email) THEN "Name and email are required"
    ELSE IF ~RegexTest(b.email) THEN "Invalid email format"
    ELSE "ok"

\* addEvent before its first await, at time t.
AddEventValidate(b, t) ==
    IF ~Truthy(b.title) \/ ~Truthy(b.eventDate)
    THEN "Title and event date are required"
    ELSE IF DateLeq(NewDate(b.eventDate), t)
    THEN "Event date must be in the future"
    ELSE "ok"

\* addBlog before its first await.
AddBlogValidate(b) ==
    IF ~Truthy(b.title) \/ ~Truthy(b.content) \/ ~Truthy(b.authorId)
    THEN "Title, content, and author ID are required"
    ELSE "ok"

\* What an operation of the service does before it calls connectToMongoDB.
SyncCheck(op, b, t) ==
    CASE op = "registerMember" -> RegisterValidate(b)
      [] op = "addEvent" -> AddEventValidate(b, t)
      [] op = "addBlog" -> AddBlogValidate(b)
      [] OTHER -> "ok"

\* The first database command of an operation, once it holds the handle.
FirstStep(op, r) ==
    CASE op = "registerMember" -> "reg_find"
      [] op = "updateMember" ->
           IF Truthy(r.body.email) THEN "upd_find" ELSE "upd_write"
      [] op = "deleteMember" -> "del_member"
      [] op = "addEvent" -> "evt_insert"
      [] op = "updateEvent" -> "evt_update"
      [] op = "deleteEvent" -> "evt_delete"
      [] op = "addBlog" -> "blog_author"
      [] op = "updateBlog" -> "blog_update"
      [] op = "deleteBlog" -> "blog_delete"
      [] OTHER -> "read"

CreateOps == {"registerMember", "addEvent", "addBlog"}

\* The requests in service that may still insert a document.
Inserting ==
    {q \in Procs : pc[q] \in {"connect", "reg_find", "reg_insert", "evt_insert",
                              "blog_author", "blog_insert", "join_connect",
                              "join_insert", "raw_connect", "raw_insert"}
                   /\ (pc[q] = "connect" => calls[q][1] \in CreateOps)}

\* The store hands out no ObjectId beyond MaxDocs: a request that may insert
\* is taken only while an id is left for it.
IdLeft == nextId + Cardinality(Inserting) <= MaxDocs

\* ----------------------------------------------------- part_001 handler
\* The response is sent and the handler returns: the request and its
\* locals are gone.
Finish(p, status, msg) ==
    /\ pc' = [pc EXCEPT ![p] = "done"]
    /\ resp' = [resp EXCEPT ![p] = [status |-> status, msg |-> msg]]
    /\ sent' = [sent EXCEPT ![p] = @ + 1]
    /\ req' = [req EXCEPT ![p] = NoRequest]
    /\ loc' = [loc EXCEPT ![p] = NoLocals]

\* The handler goes on to its next await, with locals l.
GotoWith(p, label, l) ==
    /\ pc' = [pc EXCEPT ![p] = label]
    /\ loc' = [loc EXCEPT ![p] = l]
    /\ UNCHANGED <<resp, sent, req>>

Goto(p, label) == GotoWith(p, label, loc[p])

InvalidId == "input must be a 24 character hex string"

ConnectError == "connect failed"

\* Request r comes in for a handler; start is the start of that handler.
Arrive(p, r, start) ==
    /\ ~InService(p)
    /\ pc' = [pc EXCEPT ![p] = start]
    /\ req' = [req EXCEPT ![p] = r]
    /\ calls' = [calls EXCEPT ![p] = <<>>]
    /\ loc' = [loc EXCEPT ![p] = NoLocals]
    /\ resp' = [resp EXCEPT ![p] = NoResponse]
    /\ sent' = [sent EXCEPT ![p] = 0]
    /\ UNCHANGED <<members, events, blogs, nextId, now, cached, clients, rawClient>>

\* The part_001 handler before its switch: OPTIONS is answered 200.
DispatchNoOptions(r) == Route(r)

Dispatch(r) == IF r.method = "OPTIONS" THEN Answer(200, "") ELSE Route(r)

\* handler of part_001, from its start to its first await: the CORS
\* headers, OPTIONS, the switch, the operation's validation and the call of
\* connectToMongoDB.
ApiServe(p) ==
    /\ pc[p] = "api_start"
    /\ UNCHANGED <<members, events, blogs, nextId, now, rawClient, snap>>
    /\ LET r == req[p]
           rt == Dispatch(r)
           err == IF rt.kind = "invoke" THEN SyncCheck(rt.op, r.body, now) ELSE "ok"
           c == CacheLookup
       IN  IF rt.kind = "invoke" /\ err = "ok"
           THEN /\ rt.op \in CreateOps => IdLeft
                /\ calls' = [calls EXCEPT ![p] = <<rt.op>>]
                /\ cached' = c.cached
                /\ clients' = c.clients
                /\ GotoWith(p, IF c.conn # 0 THEN FirstStep(rt.op, r) ELSE "connect",
                            [NoLocals EXCEPT !.wait = c.wait, !.conn = c.conn,
                                             !.date = NewDate(r.body.eventDate),
                                             !.at = now])
           ELSE /\ calls' = [calls EXCEPT ![p] =
                       IF rt.kind = "invoke" THEN <<rt.op>> ELSE <<>>]
                /\ UNCHANGED <<cached, clients>>
                /\ IF rt.kind = "answer" THEN Finish(p, rt.status, rt.msg)
                   ELSE IF rt.kind = "throw" THEN Finish(p, 500, rt.msg)
                   ELSE Finish(p, 500, err)

\* connectToMongoDB after its await: the promise has settled; cached.conn is
\* set to its value and returned, or its rejection is thrown to the catch of
\* the handler.
ApiConnected(p) ==
    /\ pc[p] = "connect"
    /\ clients[loc[p].wait] # "pending"
    /\ UNCHANGED <<members, events, blogs, nextId, now, clients, rawClient,
                   calls, snap>>
    /\ IF clients[loc[p].wait] = "connected"
       THEN /\ cached' = [cached EXCEPT !.conn = loc[p].wait]
            /\ GotoWith(p, FirstStep(calls[p][1], req[p]),
                        [loc[p] EXCEPT !.conn = loc[p].wait])
       ELSE /\ UNCHANGED cached
            /\ Finish(p, 500, ConnectError)

\* ---------------------------------------------------- member operations
\* The part of the state no step of a service operation writes.
Frame == UNCHANGED <<now, cached, clients, rawClient, calls, snap>>

\* The member registerMember builds from body b at time t.
NewMember(b, t) ==
    MemberDoc(0, trim(b.name), trim(toLowerCase(b.email)),
              OrElse(OptTrim(b.department), Null), OrElse(b.year, Null),
              OrElse(OptTrim(b.interests), Null), t, t, t)

\* registerMember: findOne({ email }), the duplicate check, and the member
\* built for the insert.
RegisterFind(p) ==
    /\ pc[p] = "reg_find"
    /\ Frame
    /\ UNCHANGED <<members, events, blogs, nextId>>
    /\ LET email == req[p].body.email
           existingMember == FindOne({d \in members : d.email = email})
       IN  IF existingMember._id # 0
           THEN /\ Finish(p, 500, "Email already registered")
           ELSE /\ GotoWith(p, "reg_insert", [loc[p] EXCEPT !.doc = NewMember(req[p].body, now)])

\* registerMember: insertOne(member) and the answer 201.
RegisterInsert(p) ==
    /\ pc[p] = "reg_insert"
    /\ Frame
    /\ members' = members \cup {[loc[p].doc EXCEPT !._id = nextId]}
    /\ nextId' = nextId + 1
    /\ UNCHANGED <<events, blogs>>
    /\ Finish(p, 201, "ok")

\* updateMember: the findOne for another member with the new email.
UpdateFind(p) ==
    /\ pc[p] = "upd_find"
    /\ Frame
    /\ UNCHANGED <<members, events, blogs, nextId>>
    /\ IF ~IsHexString(req[p].id)
       THEN Finish(p, 500, InvalidId)
       ELSE LET email == trim(toLowerCase(req[p].body.email))
                existingMember ==
                    FindOne({d \in members : d.email = email /\ d._id # ObjectId(req[p].id)})
            IN  IF existingMember._id # 0
                THEN Finish(p, 500, "Email already taken by another member")
                ELSE Goto(p, "upd_write")

\* A field of updateFields: the value given when it is truthy, absent
\* (undefined) otherwise.
Given(v, w) == IF Truthy(v) THEN w ELSE Undefined

\* $set of one field: the field keeps its value when updateFields has none.
SetFieldAlways(old, new) == new

SetField(old, new) == IF new = Undefined THEN old ELSE new

\* The member after $set: updateFields built from body b at time t.
MemberSet(d, b, t) ==
    [d EXCEPT !.name = SetField(@, Given(b.name, trim(b.name))),
              !.email = SetField(@, Given(b.email, trim(toLowerCase(b.email)))),
              !.department = SetField(@, Given(b.department, trim(b.department))),
              !.year = SetField(@, Given(b.year, b.year)),
              !.interests = SetField(@, Given(b.interests, trim(b.interests))),
              !.updatedAt = t]

\* updateMember: findOneAndUpdate by _id and the answer.
UpdateWrite(p) ==
    /\ pc[p] = "upd_write"
    /\ Frame
    /\ UNCHANGED <<events, blogs, nextId>>
    /\ IF ~IsHexString(req[p].id)
       THEN /\ Finish(p, 500, InvalidId)
            /\ UNCHANGED members
       ELSE LET d == FindOne({m \in members : m._id = ObjectId(req[p].id)})
            IN  IF d._id = 0
                THEN /\ Finish(p, 500, "Member not found")
                     /\ UNCHANGED members
                ELSE /\ members' = (members \ {d})
                                       \cup {MemberSet(d, req[p].body, now)}
                     /\ Finish(p, 200, "ok")

\* deleteMember: deleteOne by _id, and the check of deletedCount.
DeleteMemberOneUnchecked(p) ==
    /\ pc[p] = "del_member"
    /\ Frame
    /\ UNCHANGED <<events, blogs, nextId>>
    /\ IF ~IsHexString(req[p].id)
       THEN /\ Finish(p, 500, InvalidId)
            /\ UNCHANGED members
       ELSE /\ members' = {m \in members : m._id # ObjectId(req[p].id)}
            /\ Goto(p, "del_blogs")

DeleteMemberOne(p) ==
    /\ pc[p] = "del_member"
    /\ Frame
    /\ UNCHANGED <<events, blogs, nextId>>
    /\ IF ~IsHexString(req[p].id)
       THEN /\ Finish(p, 500, InvalidId)
            /\ UNCHANGED members
       ELSE LET d == FindOne({m \in members : m._id = ObjectId(req[p].id)})
            IN  IF d._id = 0
                THEN /\ Finish(p, 500, "Member not found")
                     /\ UNCHANGED members
                ELSE /\ members' = members \ {d}
                     /\ Goto(p, "del_blogs")

\* deleteMany({ authorId: memberId }): the blogs that stay.
BlogsKeptDropAll(bs, memberId) == {}

BlogsKept(bs, memberId) == {b \in bs : b.authorId # memberId}

\* deleteMember: the blogs of the member are deleted, and the answer.
DeleteMemberBlogs(p) ==
    /\ pc[p] = "del_blogs"
    /\ Frame
    /\ blogs' = BlogsKept(blogs, req[p].id)
    /\ UNCHANGED <<members, events, nextId>>
    /\ Finish(p, 200, "Member deleted successfully")

\* ----------------------------------------------------- event operations
\* addEvent: insertOne(event) and the answer 201.  eventDateObj was built,
\* and compared with the clock, before the await.
AddEventInsert(p) ==
    /\ pc[p] = "evt_insert"
    /\ Frame
    /\ LET b == req[p].body
       IN  events' = events \cup
               {EventDoc(nextId, trim(b.title),
                         OrElse(OptTrim(b.description), Null), loc[p].date,
                         OrElse(OptTrim(b.location), Null), now, now)}
    /\ nextId' = nextId + 1
    /\ UNCHANGED <<members, blogs>>
    /\ Finish(p, 201, "ok")

\* eventDate of updateFields: absent (NoDate) unless the body gives one.
GivenDate(v) == IF Truthy(v) THEN NewDate(v) ELSE NoDate

EventSet(d, b, t) ==
    [d EXCEPT !.title = SetField(@, Given(b.title, trim(b.title))),
              !.description = SetField(@, Given(b.description, trim(b.description))),
              !.eventDate = IF GivenDate(b.eventDate) = NoDate THEN @
                            ELSE GivenDate(b.eventDate),
              !.location = SetField(@, Given(b.location, trim(b.location))),
              !.updatedAt = t]

\* updateEvent: findOneAndUpdate by _id and the answer.
UpdateEventWrite(p) ==
    /\ pc[p] = "evt_update"
    /\ Frame
    /\ UNCHANGED <<members, blogs, nextId>>
    /\ IF ~IsHexString(req[p].id)
       THEN /\ Finish(p, 500, InvalidId)
            /\ UNCHANGED events
       ELSE LET d == FindOne({e \in events : e._id = ObjectId(req[p].id)})
            IN  IF d._id = 0
                THEN /\ Finish(p, 500, "Event not found")
                     /\ UNCHANGED events
                ELSE /\ events' = (events \ {d}) \cup {EventSet(d, req[p].body, now)}
                     /\ Finish(p, 200, "ok")

\* deleteEvent: deleteOne by _id and the answer.
DeleteEventOne(p) ==
    /\ pc[p] = "evt_delete"
    /\ Frame
    /\ UNCHANGED <<members, blogs, nextId>>
    /\ IF ~IsHexString(req[p].id)
       THEN /\ Finish(p, 500, InvalidId)
            /\ UNCHANGED events
       ELSE LET d == FindOne({e \in events : e._id = ObjectId(req[p].id)})
            IN  IF d._id = 0
                THEN /\ Finish(p, 500, "Event not found")
                     /\ UNCHANGED events
                ELSE /\ events' = events \ {d}
                     /\ Finish(p, 200, "Event deleted successfully")

\* ------------------------------------------------------ blog operations
\* The blog addBlog builds from body b and the author it found, at time t.
NewBlogNoSnapshot(b, author, t) ==
    BlogDoc(0, trim(b.title), trim(b.content), b.authorId, Undefined,
            Undefined, Undefined, t, t)

NewBlog(b, author, t) ==
    BlogDoc(0, trim(b.title), trim(b.content), b.authorId, author.name,
            author.email, author.department, t, t)

\* addBlog: findOne of the author by _id, and the blog built for the insert.
AddBlogAuthor(p) ==
    /\ pc[p] = "blog_author"
    /\ Frame
    /\ UNCHANGED <<members, events, blogs, nextId>>
    /\ IF ~IsHexString(req[p].body.authorId)
       THEN /\ Finish(p, 500, InvalidId)
       ELSE LET author == FindOne({m \in members : m._id = ObjectId(req[p].body.authorId)})
            IN  IF author._id = 0
                THEN /\ Finish(p, 500, "Author not found")
                ELSE /\ GotoWith(p, "blog_insert", [loc[p] EXCEPT !.doc = NewBlog(req[p].body, author, now)])

\* addBlog: insertOne(blog) and the answer 201.
AddBlogInsert(p) ==
    /\ pc[p] = "blog_insert"
    /\ Frame
    /\ blogs' = blogs \cup {[loc[p].doc EXCEPT !._id = nextId]}
    /\ nextId' = nextId + 1
    /\ UNCHANGED <<members, events>>
    /\ Finish(p, 201, "ok")

BlogSet(d, b, t) ==
    [d EXCEPT !.title = SetField(@, Given(b.title, trim(b.title))),
              !.content = SetField(@, Given(b.content, trim(b.content))),
              !.updatedAt = t]

\* updateBlog: findOneAndUpdate by _id and the answer.
UpdateBlogWrite(p) ==
    /\ pc[p] = "blog_update"
    /\ Frame
    /\ UNCHANGED <<members, events, nextId>>
    /\ IF ~IsHexString(req[p].id)
       THEN /\ Finish(p, 500, InvalidId)
            /\ UNCHANGED blogs
       ELSE LET d == FindOne({b \in blogs : b._id = ObjectId(req[p].id)})
            IN  IF d._id = 0
                THEN /\ Finish(p, 500, "Blog not found")
                     /\ UNCHANGED blogs
                ELSE /\ blogs' = (blogs \ {d}) \cup {BlogSet(d, req[p].body, now)}
                     /\ Finish(p, 200, "ok")

\* deleteBlog: deleteOne by _id and the answer.
DeleteBlogOne(p) ==
    /\ pc[p] = "blog_delete"
    /\ Frame
    /\ UNCHANGED <<members, events, nextId>>
    /\ IF ~IsHexString(req[p].id)
       THEN /\ Finish(p, 500, InvalidId)
            /\ UNCHANGED blogs
       ELSE LET d == FindOne({b \in blogs : b._id = ObjectId(req[p].id)})
            IN  IF d._id = 0
                THEN /\ Finish(p, 500, "Blog not found")
                     /\ UNCHANGED blogs
                ELSE /\ blogs' = blogs \ {d}
                     /\ Finish(p, 200, "Blog deleted successfully")

\* ------------------------------------------------------ read operations
ByIdOps == {"getMemberById", "getEventById", "getBlogById"}

\* The get operations: their queries read the collections and write
\* nothing; the ones by id construct an ObjectId first.
ReadAnswer(p) ==
    /\ pc[p] = "read"
    /\ Frame
    /\ UNCHANGED <<members, events, blogs, nextId>>
    /\ IF calls[p][1] \in ByIdOps /\ ~IsHexString(req[p].id)
       THEN Finish(p, 500, InvalidId)
       ELSE Finish(p, 200, "ok")

\* --------------------------------------------------------- join handler
\* handler of src/api/join.js before its first await: the answer it gives
\* without the database, or "ok".
JoinValidateNoRegex(r) ==
    IF r.method = "OPTIONS" THEN Answer(200, "")
    ELSE IF r.method # "POST" THEN Answer(405, "Method Not Allowed")
    ELSE IF ~Truthy(r.body.name) \/ ~Truthy(r.body.email)
    THEN Answer(400, "name and email are required")
    ELSE Invoke("connectToDatabase")

JoinValidate(r) ==
    IF r.method = "OPTIONS" THEN Answer(200, "")
    ELSE IF r.method # "POST" THEN Answer(405, "Method Not Allowed")
    ELSE IF ~Truthy(r.body.name) \/ ~Truthy(r.body.email)
    THEN Answer(400, "name and email are required")
    ELSE IF ~RegexTest(r.body.email) THEN Answer(400, "invalid email")
    ELSE Invoke("connectToDatabase")

\* handler of join.js, from its start to its first await.
JoinServe(p) ==
    /\ pc[p] = "join_start"
    /\ UNCHANGED <<members, events, blogs, nextId, now, rawClient, snap>>
    /\ LET v == JoinValidate(req[p])
           c == CacheLookup
       IN  IF v.kind = "invoke"
           THEN /\ IdLeft
                /\ calls' = [calls EXCEPT ![p] = <<v.op>>]
                /\ cached' = c.cached
                /\ clients' = c.clients
                /\ GotoWith(p, IF c.conn # 0 THEN "join_insert" ELSE "join_connect",
                            [NoLocals EXCEPT !.wait = c.wait, !.conn = c.conn])
           ELSE /\ UNCHANGED <<calls, cached, clients>>
                /\ Finish(p, v.status, v.msg)

\* connectToDatabase after its await, and the catch of the join handler.
JoinConnected(p) ==
    /\ pc[p] = "join_connect"
    /\ clients[loc[p].wait] # "pending"
    /\ UNCHANGED <<members, events, blogs, nextId, now, clients, rawClient,
                   calls, snap>>
    /\ IF clients[loc[p].wait] = "connected"
       THEN /\ cached' = [cached EXCEPT !.conn = loc[p].wait]
            /\ GotoWith(p, "join_insert", [loc[p] EXCEPT !.conn = loc[p].wait])
       ELSE /\ UNCHANGED cached
            /\ Finish(p, 500, "Server error")

\* The document the join handler inserts for body b at time t.
JoinMember(b, t) ==
    MemberDoc(0, b.name, b.email, OrElse(b.department, Null),
              OrElse(b.year, Null), OrElse(b.interests, Null), NoDate, t, NoDate)

\* The join handler's insertOne and the answer 200.
JoinInsert(p) ==
    /\ pc[p] = "join_insert"
    /\ Frame
    /\ members' = members \cup {[JoinMember(req[p].body, now) EXCEPT !._id = nextId]}
    /\ nextId' = nextId + 1
    /\ UNCHANGED <<events, blogs>>
    /\ Finish(p, 200, "Thanks for joining!")

\* ----------------------------------------------------- part_000 handler
\* handler of part_000 up to its first await: 405 for a method other than
\* POST; a client is constructed, and its connect() awaited, when the
\* module holds none; otherwise insertOne is issued at once.
RawServe(p) ==
    /\ pc[p] = "raw_start"
    /\ UNCHANGED <<members, events, blogs, nextId, now, cached, clients, calls,
                   snap>>
    /\ IF req[p].method # "POST"
       THEN /\ Finish(p, 405, "Only POST allowed")
            /\ UNCHANGED rawClient
       ELSE /\ IdLeft
            /\ rawClient' = IF rawClient = "null" THEN "connecting" ELSE rawClient
            /\ Goto(p, IF rawClient = "null" THEN "raw_connect" ELSE "raw_insert")

\* client.connect() of part_000 ends: the handler goes on to insertOne, or
\* the rejection is caught and answered 500.  The client stays assigned.
RawConnected(p) ==
    /\ pc[p] = "raw_connect"
    /\ UNCHANGED <<members, events, blogs, nextId, now, cached, clients, calls,
                   snap>>
    /\ \/ /\ rawClient' = "connected"
          /\ Goto(p, "raw_insert")
       \/ /\ rawClient' = "failed"
          /\ Finish(p, 500, "Database error")

\* The document part_000 inserts: the body as it came.
RawMember(b) ==
    MemberDoc(0, b.name, b.email, b.department, b.year, b.interests, NoDate,
              NoDate, NoDate)

\* insertOne(data) of part_000 and the answer.  On a client whose connect()
\* has not succeeded the driver connects by itself or throws, by its version.
RawInsert(p) ==
    /\ pc[p] = "raw_insert"
    /\ Frame
    /\ UNCHANGED <<events, blogs>>
    /\ \/ /\ members' = members \cup {[RawMember(req[p].body) EXCEPT !._id = nextId]}
          /\ nextId' = nextId + 1
          /\ Finish(p, 200, "ok")
       \/ /\ rawClient # "connected"
          /\ UNCHANGED <<members, nextId>>
          /\ Finish(p, 500, "Database error")

\* ---------------------------------------------------------------- clock
Tick ==
    /\ now < MaxClock
    /\ now' = now + 1
    /\ UNCHANGED <<members, events, blogs, nextId, cached, clients, rawClient,
                   pc, req, calls, loc, resp, sent, snap>>

\* ------------------------------------------------------- request sets
MemberIds == {HexLower(n) : n \in 1..MaxDocs}

EventBody(title, eventDate) ==
    [EmptyBody EXCEPT !.title = title, !.eventDate = eventDate]

BlogBody(title, content, authorId) ==
    [EmptyBody EXCEPT !.title = title, !.content = content, !.authorId = authorId]

ApiRequest(method, action, id, body) ==
    Request(method, action, id, Undefined, body)

\* registerMember and updateMember, through the router: three members to
\* register, two bodies that validation refuses, and updates of the email.
ServiceRequests ==
    {ApiRequest("POST", "members", Undefined, b) :
         b \in {MemberBody(Str("n"), EmLower, Str("d")),
                MemberBody(Str("m"), EmUpper, Undefined),
                MemberBody(Str("m"), EmOther, <<>>),
                MemberBody(Str("n"), EmBad, Undefined),
                EmptyBody}}
    \cup {ApiRequest("PUT", "members", id, b) :
              id \in MemberIds,
              b \in {MemberBody(Undefined, EmUpper, Undefined), EmptyBody}}

\* The requests to the join handler.
JoinRequests ==
    {ApiRequest("POST", NoAction, Undefined, b) :
         b \in {MemberBody(Str("n"), EmLower, Str("d")),
                MemberBody(Str("m"), EmUpper, Undefined),
                MemberBody(Str("n"), EmBad, Undefined),
                MemberBody(Str("n"), EmPadded, Undefined),
                MemberBody(<<>>, EmLower, Undefined),
                EmptyBody}}
    \cup {ApiRequest(m, NoAction, Undefined, MemberBody(Str("n"), EmLower, Str("d"))) :
              m \in {"GET", "OPTIONS", "PUT"}}

\* The requests to part_001 that share the connection with the join handler.
ConnRequests ==
    {ApiRequest("GET", "members", Undefined, EmptyBody),
     ApiRequest("POST", "members", Undefined, MemberBody(Str("m"), EmOther, Undefined))}

Methods == {"GET", "POST", "PUT", "DELETE", "PATCH", "OPTIONS"}

KnownActions == {"members", "events", "blogs", "dashboard", "activity", "stats"}

\* A body every create operation accepts.
FullBody ==
    [EmptyBody EXCEPT !.name = Str("n"), !.email = EmLower, !.title = Str("t"),
                      !.content = Str("c"), !.eventDate = DateString(MaxClock + 1),
                      !.authorId = HexLower(1)]

\* Every method on every action, known or not, with and without an id and
\* an author.
RouterRequests ==
    {Request(m, a, id, au, b) :
         m \in Methods, a \in KnownActions \cup {"bogus", NoAction},
         id \in {Undefined, HexLower(1), BadId}, au \in {Undefined, HexLower(1)},
         b \in {EmptyBody, FullBody}}

\* Members and their blogs.
BlogRequests ==
    {ApiRequest("POST", "members", Undefined, b) :
         b \in {MemberBody(Str("n"), EmLower, Str("d")),
                MemberBody(Str("m"), EmOther, Undefined)}}
    \cup {ApiRequest("PUT", "members", id, MemberBody(Str("k"), EmUpper, Str("e"))) :
              id \in MemberIds}
    \cup {ApiRequest("DELETE", "members", id, EmptyBody) :
              id \in MemberIds \cup {HexUpper(1), BadId}}
    \cup {ApiRequest("POST", "blogs", Undefined, BlogBody(Str("t"), Str("c"), a)) :
              a \in MemberIds \cup {HexUpper(1), BadId}}
    \cup {ApiRequest("PUT", "blogs", id, b) :
              id \in MemberIds,
              b \in {BlogBody(Str("u"), Undefined, HexLower(1)), EmptyBody}}
    \cup {ApiRequest("DELETE", "blogs", id, EmptyBody) : id \in MemberIds}
    \cup {ApiRequest("POST", "events", Undefined,
                     EventBody(Str("t"), DateString(MaxClock + 1)))}

\* Events: dates before, at and after every time of the clock, a string that
\* is no date, a blank title, no title.
EventRequests ==
    {ApiRequest("POST", "events", Undefined, b) :
         b \in {EventBody(Str("t"), DateString(t)) : t \in 0..(MaxClock + 1)}
               \cup {EventBody(Str("t"), Str("x")),
                     EventBody(Str(" "), DateString(MaxClock + 1)),
                     EventBody(Undefined, DateString(MaxClock + 1)),
                     EventBody(Str("t"), Undefined)}}
    \cup {ApiRequest("PUT", "events", HexLower(1), b) :
              b \in {EventBody(Str("u"), Str("x")), EventBody(Undefined, DateString(0))}}
    \cup {ApiRequest("DELETE", "events", HexLower(1), EmptyBody)}

\* Every write path: the create and update operations of part_001.
WriteRequests ==
    {ApiRequest("POST", "members", Undefined, b) :
         b \in {MemberBody(Str("n"), EmLower, Str("d")),
                MemberBody(Str(" "), EmOther, Undefined)}}
    \cup {ApiRequest("PUT", "members", HexLower(1), b) :
              b \in {MemberBody(Str(" "), EmPadded, Undefined)}}
    \cup {ApiRequest("POST", "events", Undefined, b) :
              b \in {EventBody(Str("t"), DateString(MaxClock + 1)),
                     EventBody(Str(" "), Str("x"))}}
    \cup {ApiRequest("PUT", "events", HexLower(1), EventBody(Str(" "), Str("x")))}
    \cup {ApiRequest("POST", "blogs", Undefined, b) :
              b \in {BlogBody(Str("t"), Str("c"), HexLower(1)),
                     BlogBody(Str(" "), Str(" "), HexLower(1))}}
    \cup {ApiRequest("PUT", "blogs", HexLower(2), BlogBody(Str(" "), Str(" "), Undefined))}

\* The requests to the handler of part_000.
RawRequests ==
    {ApiRequest("POST", NoAction, Undefined, b) :
         b \in {MemberBody(Str("n"), EmLower, Str("d")),
                MemberBody(Str("m"), EmUpper, Undefined),
                EmptyBody}}
    \cup {ApiRequest("GET", NoAction, Undefined, EmptyBody)}

\* ------------------------------------------------------ specifications
\* Requests overlap: a request is taken while another is in service.
Overlapped == UNCHANGED snap

\* Requests come one at a time: a request is taken when none is in service,
\* and the collections it finds are noted.
Alone ==
    /\ \A q \in Procs : ~InService(q)
    /\ snap' = <<members, events, blogs, clients>>

\* Requests overlap or not: the collections and the clients a request finds
\* are noted.
Noted == snap' = <<members, events, blogs, clients>>

\* Two requests at a time, each a registerMember or an updateMember.
ServiceNext ==
    \/ \E p \in Procs : \E r \in ServiceRequests : Arrive(p, r, "api_start") /\ Overlapped
    \/ \E p \in Procs : ApiServe(p)
    \/ \E p \in Procs : ApiConnected(p)
    \/ \E p \in Procs : RegisterFind(p)
    \/ \E p \in Procs : RegisterInsert(p)
    \/ \E p \in Procs : UpdateFind(p)
    \/ \E p \in Procs : UpdateWrite(p)
    \/ \E k \in 1..Len(clients) : ConnectSettles(k)

ServiceSpec == Init /\ [][ServiceNext]_vars

\* Two requests at a time, to part_001 and to the join handler, which share
\* global._mongo.
ConnNext ==
    \/ \E p \in Procs : \E r \in ConnRequests : Arrive(p, r, "api_start") /\ Overlapped
    \/ \E p \in Procs : ApiServe(p)
    \/ \E p \in Procs : \E r \in JoinRequests : Arrive(p, r, "join_start") /\ Overlapped
    \/ \E p \in Procs : JoinServe(p)
    \/ \E p \in Procs : ApiConnected(p)
    \/ \E p \in Procs : JoinConnected(p)
    \/ \E p \in Procs : RegisterFind(p)
    \/ \E p \in Procs : RegisterInsert(p)
    \/ \E p \in Procs : ReadAnswer(p)
    \/ \E p \in Procs : JoinInsert(p)
    \/ \E k \in 1..Len(clients) : ConnectSettles(k)

ConnSpec == Init /\ [][ConnNext]_vars

\* Two requests at a time, to part_001 and to the join handler, each coming
\* in before, while or after the connection is made or fails.
RetryNext ==
    \/ \E p \in Procs : \E r \in ConnRequests : Arrive(p, r, "api_start") /\ Noted
    \/ \E p \in Procs : ApiServe(p)
    \/ \E p \in Procs : \E r \in JoinRequests : Arrive(p, r, "join_start") /\ Noted
    \/ \E p \in Procs : JoinServe(p)
    \/ \E p \in Procs : ApiConnected(p)
    \/ \E p \in Procs : JoinConnected(p)
    \/ \E p \in Procs : RegisterFind(p)
    \/ \E p \in Procs : RegisterInsert(p)
    \/ \E p \in Procs : ReadAnswer(p)
    \/ \E p \in Procs : JoinInsert(p)
    \/ \E k \in 1..Len(clients) : ConnectSettles(k)

RetrySpec == Init /\ [][RetryNext]_vars

\* Two requests at a time to the handler of part_000.
RawNext ==
    \/ \E p \in Procs : \E r \in RawRequests : Arrive(p, r, "raw_start") /\ Overlapped
    \/ \E p \in Procs : RawServe(p)
    \/ \E p \in Procs : RawConnected(p)
    \/ \E p \in Procs : RawInsert(p)

RawSpec == Init /\ [][RawNext]_vars

\* The steps of every operation of the service.
ServiceSteps(p) ==
    \/ ApiConnected(p)
    \/ RegisterFind(p)
    \/ RegisterInsert(p)
    \/ UpdateFind(p)
    \/ UpdateWrite(p)
    \/ DeleteMemberOne(p)
    \/ DeleteMemberBlogs(p)
    \/ AddEventInsert(p)
    \/ UpdateEventWrite(p)
    \/ DeleteEventOne(p)
    \/ AddBlogAuthor(p)
    \/ AddBlogInsert(p)
    \/ UpdateBlogWrite(p)
    \/ DeleteBlogOne(p)
    \/ ReadAnswer(p)

\* registerMember, addBlog and deleteMember, through the router: one member
\* to register, blogs of the first two ids, the first member to delete.
OrphanRequests ==
    {ApiRequest("POST", "members", Undefined, MemberBody(Str("n"), EmLower, Str("d")))}
    \cup {ApiRequest("POST", "blogs", Undefined, BlogBody(Str("t"), Str("c"), a)) :
              a \in {HexLower(1), HexLower(2)}}
    \cup {ApiRequest("DELETE", "members", HexLower(1), EmptyBody)}

\* Two requests at a time, each a registerMember, an addBlog or a
\* deleteMember.
OrphanNext ==
    \/ \E p \in Procs : \E r \in OrphanRequests : Arrive(p, r, "api_start") /\ Overlapped
    \/ \E p \in Procs : ApiServe(p)
    \/ \E p \in Procs : ApiConnected(p)
    \/ \E p \in Procs : RegisterFind(p)
    \/ \E p \in Procs : RegisterInsert(p)
    \/ \E p \in Procs : DeleteMemberOne(p)
    \/ \E p \in Procs : DeleteMemberBlogs(p)
    \/ \E p \in Procs : AddBlogAuthor(p)
    \/ \E p \in Procs : AddBlogInsert(p)
    \/ \E k \in 1..Len(clients) : ConnectSettles(k)

OrphanSpec == Init /\ [][OrphanNext]_vars

\* Updates that supply some of the fields, a blank or an empty one among
\* them, of a member, an event and a blog created before: the member is the
\* first document, the event the second and the blog the third.
UpdateRequests ==
    {ApiRequest("POST", "members", Undefined, MemberBody(Str("n"), EmLower, Str("d"))),
     ApiRequest("POST", "events", Undefined, EventBody(Str("t"), DateString(MaxClock + 1))),
     ApiRequest("POST", "blogs", Undefined, BlogBody(Str("t"), Str("c"), HexLower(1)))}
    \cup {ApiRequest("PUT", "members", HexLower(1), b) :
              b \in {MemberBody(Str("k"), Undefined, Undefined),
                     MemberBody(<<>>, EmUpper, Str(" "))}}
    \cup {ApiRequest("PUT", "events", HexLower(2), b) :
              b \in {EventBody(Str("u"), Undefined),
                     EventBody(<<>>, DateString(0))}}
    \cup {ApiRequest("PUT", "blogs", HexLower(3), b) :
              b \in {BlogBody(Str("u"), Undefined, HexLower(2)),
                     BlogBody(<<>>, Str("v"), Undefined)}}

\* One request at a time, creating and updating, while the clock runs.
UpdateNext ==
    \/ \E r \in UpdateRequests : Arrive(1, r, "api_start") /\ Alone
    \/ ApiServe(1)
    \/ ApiConnected(1)
    \/ RegisterFind(1)
    \/ RegisterInsert(1)
    \/ AddEventInsert(1)
    \/ AddBlogAuthor(1)
    \/ AddBlogInsert(1)
    \/ UpdateFind(1)
    \/ UpdateWrite(1)
    \/ UpdateEventWrite(1)
    \/ UpdateBlogWrite(1)
    \/ \E k \in 1..Len(clients) : ConnectSettles(k)
    \/ Tick

UpdateSpec == Init /\ [][UpdateNext]_vars

\* One request at a time, to every route of part_001.
RouterNext ==
    \/ \E r \in RouterRequests : Arrive(1, r, "api_start") /\ Alone
    \/ ApiServe(1)
    \/ ServiceSteps(1)
    \/ \E k \in 1..Len(clients) : ConnectSettles(k)

RouterSpec == Init /\ [][RouterNext]_vars

\* One request at a time, on members and blogs, beside an event.
BlogNext ==
    \/ \E r \in BlogRequests : Arrive(1, r, "api_start") /\ Alone
    \/ ApiServe(1)
    \/ ApiConnected(1)
    \/ RegisterFind(1)
    \/ RegisterInsert(1)
    \/ UpdateFind(1)
    \/ UpdateWrite(1)
    \/ DeleteMemberOne(1)
    \/ DeleteMemberBlogs(1)
    \/ AddBlogAuthor(1)
    \/ AddBlogInsert(1)
    \/ UpdateBlogWrite(1)
    \/ DeleteBlogOne(1)
    \/ AddEventInsert(1)
    \/ \E k \in 1..Len(clients) : ConnectSettles(k)

BlogSpec == Init /\ [][BlogNext]_vars

\* One request at a time, on events, while the clock runs.
EventNext ==
    \/ \E r \in EventRequests : Arrive(1, r, "api_start") /\ Alone
    \/ ApiServe(1)
    \/ ApiConnected(1)
    \/ AddEventInsert(1)
    \/ UpdateEventWrite(1)
    \/ DeleteEventOne(1)
    \/ \E k \in 1..Len(clients) : ConnectSettles(k)
    \/ Tick

EventSpec == Init /\ [][EventNext]_vars

\* One request at a time, through every write path of the three handlers.
WriteNext ==
    \/ \E r \in WriteRequests : Arrive(1, r, "api_start") /\ Alone
    \/ ApiServe(1)
    \/ \E r \in JoinRequests : Arrive(1, r, "join_start") /\ Alone
    \/ JoinServe(1)
    \/ \E r \in RawRequests : Arrive(1, r, "raw_start") /\ Alone
    \/ RawServe(1)
    \/ ApiConnected(1)
    \/ RegisterFind(1)
    \/ RegisterInsert(1)
    \/ UpdateFind(1)
    \/ UpdateWrite(1)
    \/ AddEventInsert(1)
    \/ UpdateEventWrite(1)
    \/ AddBlogAuthor(1)
    \/ AddBlogInsert(1)
    \/ UpdateBlogWrite(1)
    \/ JoinConnected(1)
    \/ JoinInsert(1)
    \/ RawConnected(1)
    \/ RawInsert(1)
    \/ \E k \in 1..Len(clients) : ConnectSettles(k)

WriteSpec == Init /\ [][WriteNext]_vars

\* ================================================================ properties
\* C1: no two documents of the members collection have the same email, in
\* every state that registerMember and updateMember calls, overlapping or
\* not, can reach.
EmailsUnique ==
    \A m1 \in members : \A m2 \in members : m1.email = m2.email => m1 = m2

\* C2: every member that has an email has it in lower case, whatever write
\* path stored it.
EmailsLowercased ==
    \A m \in members : ~IsNullish(m.email) => m.email = toLowerCase(m.email)

\* C3: a registerMember whose email, lowercased and trimmed, is the email of
\* a stored member throws 'Email already registered' and leaves the members
\* collection as it was.
RegisterRejectsDuplicate ==
    [][\A p \in Procs :
          ( /\ pc[p] = "reg_find"
            /\ pc'[p] # "reg_find"
            /\ \E m \in members :
                   m.email = trim(toLowerCase(req[p].body.email)) )
          => ( /\ pc'[p] = "done"
               /\ resp'[p] = [status |-> 500, msg |-> "Email already registered"]
               /\ members' = members )]_vars

\* C4: the calls of connectToMongoDB and connectToDatabase, overlapping or
\* not, construct at most one MongoClient, and every call that returns
\* returns the one handle, which is the handle the cache holds.
OneClientOneHandle ==
    /\ Len(clients) <= 1
    /\ \A p \in Procs :
           loc[p].conn # 0 =>
               /\ loc[p].conn = cached.conn
               /\ clients[loc[p].conn] = "connected"
    /\ \A p \in Procs : \A q \in Procs :
           loc[p].conn # 0 /\ loc[q].conn # 0 => loc[p].conn = loc[q].conn

\* C4, its case: a join request and a part_001 request in service at once,
\* both holding the handle.
TwoCallersOneHandle ==
    \E p \in Procs : \E q \in Procs :
        /\ pc[p] = "join_insert"
        /\ pc[q] \in {"reg_find", "read"}
        /\ loc[p].conn # 0
        /\ loc[q].conn # 0

\* C5: when deleteMember(id) returns successfully and nothing else ran
\* meanwhile, no member has that id, the blogs are the blogs there were
\* whose authorId is not id, and the events are the events there were.
DeleteMemberCascades ==
    [][\A p \in Procs :
          (pc[p] = "del_blogs" /\ pc'[p] = "done" /\ resp'[p].status = 200)
          => ( /\ \A m \in members' : m._id # ObjectId(req[p].id)
               /\ \E m \in snap[1] : m._id = ObjectId(req[p].id)
               /\ blogs' = {b \in snap[3] : b.authorId # req[p].id}
               /\ events' = snap[2] )]_vars

\* C5, its case: deleteMember has returned successfully, a blog of the
\* member is gone with it, and an event is still there.
MemberAndBlogsDeleted ==
    /\ pc[1] = "done"
    /\ calls[1] = <<"deleteMember">>
    /\ resp[1].status = 200
    /\ \E b \in snap[3] : b \notin blogs
    /\ events # {}

\* C6: addEvent goes on to its insert only with an eventDate that is a valid
\* time later than the clock read at validation, and the event it inserts
\* has that eventDate; with any other eventDate it throws.
AddEventFutureOnly ==
    [][\A p \in Procs :
          /\ ( /\ pc[p] = "api_start"
               /\ pc'[p] \in {"connect", "evt_insert"}
               /\ calls'[p] = <<"addEvent">> )
             => ( /\ NewDate(req[p].body.eventDate) # NaN
                  /\ NewDate(req[p].body.eventDate) > now )
          /\ (pc[p] = "evt_insert" /\ pc'[p] = "done")
             => ( /\ loc[p].date # NaN
                  /\ loc[p].date > loc[p].at
                  /\ \E e \in events' \ events : e.eventDate = loc[p].date )]_vars

\* C7: the blog addBlog inserts carries the name, email and department of
\* its author as they are at that moment, and no step of updateMember or of
\* updateBlog changes these three fields of any blog.
BlogKeepsAuthorSnapshot ==
    [][\A p \in Procs :
          /\ (pc[p] = "blog_insert" /\ pc'[p] = "done")
             => ( /\ blogs' # blogs
                  /\ \A b \in blogs' \ blogs :
                         \E m \in members :
                             /\ m._id = ObjectId(b.authorId)
                             /\ b.authorName = m.name
                             /\ b.authorEmail = m.email
                             /\ b.authorDepartment = m.department )
          /\ pc[p] \in {"upd_find", "upd_write", "blog_update"}
             => \A b \in blogs :
                    \E b2 \in blogs' :
                        /\ b2._id = b._id
                        /\ b2.authorName = b.authorName
                        /\ b2.authorEmail = b.authorEmail
                        /\ b2.authorDepartment = b.authorDepartment]_vars

\* C7, its case: a blog whose author has since been renamed, and has another
\* email and department, still carries what the author had.
SnapshotOutlivesUpdate ==
    \E b \in blogs : \E m \in members :
        /\ IsHexString(b.authorId)
        /\ m._id = ObjectId(b.authorId)
        /\ m.name # b.authorName
        /\ m.email # b.authorEmail
        /\ m.department # b.authorDepartment

\* The operations the router may invoke for a method on an action.
OpsOf(a, m) ==
    CASE a = "members" /\ m = "GET" -> {"getMemberById", "getMembers"}
      [] a = "members" /\ m = "POST" -> {"registerMember"}
      [] a = "members" /\ m = "PUT" -> {"updateMember"}
      [] a = "members" /\ m = "DELETE" -> {"deleteMember"}
      [] a = "events" /\ m = "GET" -> {"getEventById", "getEvents"}
      [] a = "events" /\ m = "POST" -> {"addEvent"}
      [] a = "events" /\ m = "PUT" -> {"updateEvent"}
      [] a = "events" /\ m = "DELETE" -> {"deleteEvent"}
      [] a = "blogs" /\ m = "GET" -> {"getBlogById", "getBlogsByAuthor", "getBlogs"}
      [] a = "blogs" /\ m = "POST" -> {"addBlog"}
      [] a = "blogs" /\ m = "PUT" -> {"updateBlog"}
      [] a = "blogs" /\ m = "DELETE" -> {"deleteBlog"}
      [] a = "dashboard" /\ m = "GET" -> {"getDashboardStats"}
      [] a = "activity" /\ m = "GET" -> {"getRecentActivity"}
      [] a = "stats" /\ m = "GET" -> {"getMemberStats"}
      [] OTHER -> {}

IdRequired(a) ==
    CASE a = "members" -> "Member ID required"
      [] a = "events" -> "Event ID required"
      [] a = "blogs" -> "Blog ID required"
      [] OTHER -> ""

\* The step in which the part_001 handler of p runs its switch on request r:
\* what the router does with it.  idNeeded: a PUT or DELETE without an id
\* invokes nothing and throws.
Routed(p, idNeeded) ==
    LET r == req[p]
        one == Len(calls'[p]) = 1 /\ calls'[p][1] \in OpsOf(r.action, r.method)
        none == calls'[p] = <<>> /\ pc'[p] = "done"
    IN  /\ <<members, events, blogs, nextId>>' = <<members, events, blogs, nextId>>
        /\ IF r.method = "OPTIONS"
           THEN none /\ resp'[p].status = 200
           ELSE IF OpsOf(r.action, r.method) # {}
           THEN IF idNeeded /\ r.method \in {"PUT", "DELETE"} /\ ~Truthy(r.id)
                THEN none /\ resp'[p] = [status |-> 500, msg |-> IdRequired(r.action)]
                ELSE one
           ELSE IF r.action \in KnownActions
           THEN none /\ resp'[p].status = 405
           ELSE none /\ resp'[p] = [status |-> 400, msg |-> "Invalid action"]

\* C8, as stated: GET, POST, PUT and DELETE on members, events and blogs
\* each invoke exactly one operation; GET alone does on dashboard, activity
\* and stats; any other method is answered 405, any other action 400, and
\* OPTIONS 200, with no operation invoked and the store untouched.
RouterInvokesOne ==
    [][\A p \in Procs : (pc[p] = "api_start" /\ pc'[p] # "api_start")
                            => Routed(p, FALSE)]_vars

\* C8, amended: as stated, but PUT and DELETE invoke their operation only
\* when the request has an id; without one the handler throws '<Kind> ID
\* required', answered 500, and invokes nothing.
RouterInvokesOneGivenId ==
    [][\A p \in Procs : (pc[p] = "api_start" /\ pc'[p] # "api_start")
                            => Routed(p, TRUE)]_vars

\* C8, its case: a PUT or DELETE without an id has been answered 500 with
\* no operation invoked.
PutWithoutIdAnswered ==
    /\ pc[1] = "done"
    /\ calls[1] = <<>>
    /\ resp[1] = [status |-> 500, msg |-> "Member ID required"]

\* C9: every member has a name and an email that are not empty, every event
\* a title that is not empty and an eventDate, every blog a title and a
\* content that are not empty and an authorId.
RequiredFieldsPresent ==
    /\ \A m \in members : Truthy(m.name) /\ Truthy(m.email)
    /\ \A e \in events : Truthy(e.title) /\ e.eventDate # NoDate
    /\ \A b \in blogs : Truthy(b.title) /\ Truthy(b.content) /\ Truthy(b.authorId)

\* The join handler may go on to the database with request r.
JoinAccepts(r) ==
    /\ r.method = "POST"
    /\ Truthy(r.body.name)
    /\ Truthy(r.body.email)
    /\ RegexTest(r.body.email)

\* C10: the join handler answers 405 to a method other than POST and
\* OPTIONS, 400 'name and email are required' to a POST without a truthy
\* name or email, 400 'invalid email' to a POST whose email does not match,
\* in each case without calling connectToDatabase or inserting; it inserts,
\* one member, only for a POST that passed both checks.
JoinValidatesFirst ==
    [][\A p \in Procs :
          /\ (pc[p] = "join_start" /\ pc'[p] # "join_start" /\ ~JoinAccepts(req[p]))
             => ( /\ pc'[p] = "done"
                  /\ calls'[p] = <<>>
                  /\ <<cached, clients, members, nextId>>'
                         = <<cached, clients, members, nextId>>
                  /\ resp'[p] =
                         IF req[p].method = "OPTIONS"
                         THEN [status |-> 200, msg |-> ""]
                         ELSE IF req[p].method # "POST"
                         THEN [status |-> 405, msg |-> "Method Not Allowed"]
                         ELSE IF ~Truthy(req[p].body.name) \/ ~Truthy(req[p].body.email)
                         THEN [status |-> 400, msg |-> "name and email are required"]
                         ELSE [status |-> 400, msg |-> "invalid email"] )
          /\ pc'[p] \in {"join_connect", "join_insert"} => JoinAccepts(req'[p])
          /\ (pc[p] = "join_insert" /\ pc'[p] # "join_insert")
             => ( /\ JoinAccepts(req[p])
                  /\ members \subseteq members'
                  /\ Cardinality(members' \ members) = 1 )]_vars

\* C10, its case: a POST with an email that does not match the pattern has
\* been answered 400 while the other request is at its insert.
JoinRefusedInvalidEmail ==
    \E p \in Procs : \E q \in Procs :
        /\ pc[p] = "done"
        /\ resp[p] = [status |-> 400, msg |-> "invalid email"]
        /\ pc[q] = "join_insert"

\* The messages of the errors the operations of the service, the router and
\* the driver throw.
ServiceErrors ==
    {"Name and email are required", "Invalid email format",
     "Email already registered", "Email already taken by another member",
     "Member not found", "Title and event date are required",
     "Event date must be in the future", "Event not found",
     "Title, content, and author ID are required", "Author not found",
     "Blog not found", "Member ID required", "Event ID required",
     "Blog ID required", InvalidId, ConnectError}

\* C11: a request to the part_001 handler has no response while it is in
\* service and exactly one once the handler has returned.  The response is
\* 201 exactly when a POST has inserted its document, 200 only for a GET,
\* PUT, DELETE or OPTIONS, and 500 with the message of the error for every
\* error thrown: a validation failure, a missing id on PUT or DELETE, a
\* duplicate, a record not found, a failed connection; a request answered
\* 500, 400 or 405 has written nothing in its last step.
AnsweredOnce ==
    [][\A p \in Procs :
          /\ sent'[p] = IF pc'[p] = "done" THEN 1 ELSE 0
          /\ (pc[p] # "done" /\ pc'[p] = "done")
             => LET r == req[p]
                    s == resp'[p].status
                    wrote == <<members, events, blogs>>' # <<members, events, blogs>>
                IN  /\ s \in {200, 201, 400, 405, 500}
                    /\ (s = 201) <=> (r.method = "POST" /\ nextId' = nextId + 1)
                    /\ s = 200 => r.method \in {"GET", "PUT", "DELETE", "OPTIONS"}
                    /\ s = 500 => (resp'[p].msg \in ServiceErrors /\ ~wrote)
                    /\ s \in {400, 405} => (calls'[p] = <<>> /\ ~wrote)
                    /\ ( /\ r.method \in {"PUT", "DELETE"}
                         /\ r.action \in {"members", "events", "blogs"}
                         /\ ~Truthy(r.id) )
                       => resp'[p] = [status |-> 500, msg |-> IdRequired(r.action)]
                    /\ ( /\ pc[p] = "api_start"
                         /\ r.method = "POST"
                         /\ r.action \in {"members", "events", "blogs"} )
                       => ( /\ Len(calls'[p]) = 1
                            /\ resp'[p] = [status |-> 500,
                                           msg |-> SyncCheck(calls'[p][1], r.body, now)]
                            /\ resp'[p].msg # "ok" )]_vars

\* C11, its case: updateMember threw 'Member not found', and the request
\* has its one response, 500 with that message.
NotFoundAnsweredOnce ==
    /\ pc[1] = "done"
    /\ calls[1] = <<"updateMember">>
    /\ sent[1] = 1
    /\ resp[1] = [status |-> 500, msg |-> "Member not found"]

\* C12: addBlog with the id of no member throws 'Author not found' and
\* inserts nothing; and whenever every addBlog and deleteMember call has
\* completed, the authorId of every blog is the id of a member in the
\* members collection.
BlogsReferenceMembers ==
    [][/\ \A p \in Procs :
              ( /\ pc[p] = "blog_author"
                /\ pc'[p] # "blog_author"
                /\ IsHexString(req[p].body.authorId)
                /\ \A m \in members : m._id # ObjectId(req[p].body.authorId) )
              => ( /\ pc'[p] = "done"
                   /\ resp'[p] = [status |-> 500, msg |-> "Author not found"]
                   /\ blogs' = blogs )
       /\ (\A p \in Procs : ~InService(p)')
              => \A b \in blogs' :
                     \E m \in members' :
                         /\ IsHexString(b.authorId)
                         /\ m._id = ObjectId(b.authorId)]_vars

\* The steps of the update and delete operations that look their record up.
ByIdSteps ==
    {"upd_find", "upd_write", "del_member", "evt_update", "evt_delete",
     "blog_update", "blog_delete"}

\* The collection a step looks its record up in.
TargetOf(label) ==
    CASE label \in {"upd_find", "upd_write", "del_member"} -> members
      [] label \in {"evt_update", "evt_delete"} -> events
      [] OTHER -> blogs

NotFoundOf(label) ==
    CASE label \in {"upd_find", "upd_write", "del_member"} -> "Member not found"
      [] label \in {"evt_update", "evt_delete"} -> "Event not found"
      [] OTHER -> "Blog not found"

\* A step of an update or a delete of p whose id, a well-formed one, is the
\* id of no record of the target collection: the three collections stay as
\* they are and the operation throws its '... not found' (updateMember
\* first goes on from its email lookup to its write).  emailFirst: the email
\* lookup of updateMember may throw before that.
AbsentFails(p, emailFirst) ==
    ( /\ pc[p] \in ByIdSteps
      /\ pc'[p] # pc[p]
      /\ IsHexString(req[p].id)
      /\ \A d \in TargetOf(pc[p]) : d._id # ObjectId(req[p].id) )
    => ( /\ <<members, events, blogs>>' = <<members, events, blogs>>
         /\ \/ /\ pc'[p] = "done"
               /\ resp'[p] = [status |-> 500, msg |-> NotFoundOf(pc[p])]
            \/ /\ pc[p] = "upd_find"
               /\ pc'[p] = "upd_write"
            \/ /\ emailFirst
               /\ pc[p] = "upd_find"
               /\ pc'[p] = "done"
               /\ resp'[p] = [status |-> 500,
                              msg |-> "Email already taken by another member"]
               /\ \E m \in members :
                      m.email = trim(toLowerCase(req[p].body.email)) )

\* A step of an update or a delete of p whose id is no hex string: the
\* ObjectId constructor throws and the three collections stay as they are.
MalformedFails(p) ==
    ( /\ pc[p] \in ByIdSteps
      /\ pc'[p] # pc[p]
      /\ ~IsHexString(req[p].id) )
    => ( /\ <<members, events, blogs>>' = <<members, events, blogs>>
         /\ pc'[p] = "done"
         /\ resp'[p] = [status |-> 500, msg |-> InvalidId] )

\* C13, as stated: updateMember, updateEvent, updateBlog, deleteMember,
\* deleteEvent and deleteBlog with the id of no record throw the matching
\* '... not found' and leave the three collections unchanged.
AbsentRecordNotFound ==
    [][\A p \in Procs : AbsentFails(p, FALSE)]_vars

\* C13, amended: as stated, but updateMember given the email of another
\* member throws 'Email already taken by another member' before it looks
\* the record up, and an id that is no hex string makes every one of the
\* six throw the error of the ObjectId constructor; the collections are
\* unchanged in every case.
AbsentRecordFailsUnchanged ==
    [][\A p \in Procs : AbsentFails(p, TRUE) /\ MalformedFails(p)]_vars

\* C13, its case: updateMember of an id no member has, with the email of a
\* stored member, has thrown 'Email already taken by another member'.
AbsentMemberEmailTaken ==
    /\ pc[1] = "done"
    /\ calls[1] = <<"updateMember">>
    /\ resp[1] = [status |-> 500, msg |-> "Email already taken by another member"]
    /\ members # {}
    /\ members = snap[1]
    /\ \A m \in members : m._id # 1

\* Field v of the update data sets a field to w when v is truthy, and
\* leaves it as it was, old, otherwise.
SetIfGiven(v, w, old) == IF Truthy(v) THEN w ELSE old

\* Record e is member d after an update with data b at time t.
MemberUpdated(d, e, b, t) ==
    /\ e._id = d._id
    /\ e.joinedAt = d.joinedAt
    /\ e.createdAt = d.createdAt
    /\ e.updatedAt = t
    /\ e.name = SetIfGiven(b.name, trim(b.name), d.name)
    /\ e.email = SetIfGiven(b.email, trim(toLowerCase(b.email)), d.email)
    /\ e.department = SetIfGiven(b.department, trim(b.department), d.department)
    /\ e.year = SetIfGiven(b.year, b.year, d.year)
    /\ e.interests = SetIfGiven(b.interests, trim(b.interests), d.interests)

\* Record e is event d after an update with data b at time t.
EventUpdated(d, e, b, t) ==
    /\ e._id = d._id
    /\ e.createdAt = d.createdAt
    /\ e.updatedAt = t
    /\ e.title = SetIfGiven(b.title, trim(b.title), d.title)
    /\ e.description = SetIfGiven(b.description, trim(b.description), d.description)
    /\ e.eventDate = SetIfGiven(b.eventDate, NewDate(b.eventDate), d.eventDate)
    /\ e.location = SetIfGiven(b.location, trim(b.location), d.location)

\* Record e is blog d after an update with data b at time t.
BlogUpdated(d, e, b, t) ==
    /\ e._id = d._id
    /\ e.createdAt = d.createdAt
    /\ e.updatedAt = t
    /\ e.authorId = d.authorId
    /\ e.authorName = d.authorName
    /\ e.authorEmail = d.authorEmail
    /\ e.authorDepartment = d.authorDepartment
    /\ e.title = SetIfGiven(b.title, trim(b.title), d.title)
    /\ e.content = SetIfGiven(b.content, trim(b.content), d.content)

\* C14: a successful updateMember, updateEvent or updateBlog sets, in the
\* record of the given id, the fields its update data gives with a truthy
\* value, and updatedAt; _id, createdAt and every other field of the
\* record, and every other record of the three collections, stay as they
\* are.
UpdateSetsOnlySupplied ==
    [][\A p \in Procs :
          ( /\ pc[p] \in {"upd_write", "evt_update", "blog_update"}
            /\ pc'[p] = "done"
            /\ resp'[p].status = 200 )
          => LET id == ObjectId(req[p].id)
                 b == req[p].body
             IN  CASE pc[p] = "upd_write" ->
                        /\ <<events, blogs>>' = <<events, blogs>>
                        /\ \E d \in members : \E e \in members' :
                               /\ d._id = id
                               /\ members' \ {e} = members \ {d}
                               /\ MemberUpdated(d, e, b, now)
                   [] pc[p] = "evt_update" ->
                        /\ <<members, blogs>>' = <<members, blogs>>
                        /\ \E d \in events : \E e \in events' :
                               /\ d._id = id
                               /\ events' \ {e} = events \ {d}
                               /\ EventUpdated(d, e, b, now)
                   [] OTHER ->
                        /\ <<members, events>>' = <<members, events>>
                        /\ \E d \in blogs : \E e \in blogs' :
                               /\ d._id = id
                               /\ blogs' \ {e} = blogs \ {d}
                               /\ BlogUpdated(d, e, b, now)]_vars

\* C14, its case: an updateMember that gave a name alone has returned; the
\* member has the new name and a later updatedAt, and the email, department
\* and createdAt it had.
NameAloneUpdated ==
    /\ pc[1] = "done"
    /\ calls[1] = <<"updateMember">>
    /\ resp[1].status = 200
    /\ \E d \in snap[1] : \E e \in members :
           /\ e._id = d._id
           /\ e.name # d.name
           /\ e.updatedAt # d.updatedAt
           /\ e.email = d.email
           /\ e.department = d.department
           /\ e.createdAt = d.createdAt

\* C15: once the connect of the first MongoClient has failed, no call of
\* connectToMongoDB or connectToDatabase constructs another client:
\* cached.promise stays that rejected promise and cached.conn stays null,
\* every call awaits that promise, and every call that awaits it fails, its
\* request answered 500 with nothing written.
FailedConnectNotRetried ==
    [][(Len(clients) >= 1 /\ clients[1] = "failed")
          => ( /\ clients' = clients
               /\ cached' = cached
               /\ cached.conn = 0
               /\ cached.promise = 1
               /\ <<members, events, blogs>>' = <<members, events, blogs>>
               /\ \A p \in Procs :
                      /\ ( /\ pc[p] \in {"api_start", "join_start"}
                           /\ pc'[p] \notin {pc[p], "done"} )
                         => ( /\ pc'[p] \in {"connect", "join_connect"}
                              /\ loc'[p].wait = 1 )
                      /\ ( /\ pc[p] \in {"connect", "join_connect"}
                           /\ pc'[p] # pc[p] )
                         => ( /\ pc'[p] = "done"
                              /\ resp'[p] =
                                     [status |-> 500,
                                      msg |-> IF pc[p] = "connect" THEN ConnectError
                                              ELSE "Server error"] ) )]_vars

\* C15, its case: the last request came in when the connect of the first
\* client had failed; both requests have been answered 500 for the failed
\* connection, one by each handler, and there is still one client.
LaterCallFailedToo ==
    /\ snap[4] = <<"failed">>
    /\ clients = <<"failed">>
    /\ \E p \in Procs : \E q \in Procs :
           /\ pc[p] = "done"
           /\ resp[p] = [status |-> 500, msg |-> ConnectError]
           /\ pc[q] = "done"
           /\ resp[q] = [status |-> 500, msg |-> "Server error"]

\* C16: a request to the part_000 handler has its insertOne issued only
\* when the connect() of the module-level client has completed
\* successfully.
InsertOnlyWhenConnected ==
    \A p \in Procs : pc[p] = "raw_insert" => rawClient = "connected"

====
